---------------------------- MODULE Spec2Model ----------------------------
(***************************************************************************)
(* Phase-aware (4D) block addressing of the Luanti fork: the v4s16         *)
(* coordinate and its hash (irr_v3d.h), the persistence key codecs         *)
(* (database.cpp), the m_blocks store with orphan-then-delete removal      *)
(* (map.cpp) and the phase seed modification of emergeBlock                *)
(* (servermap.cpp).                                                        *)
(*                                                                         *)
(* Machine words are kept at their width.  TLC's integers are 32 bits, so  *)
(* a 64-bit word is the tuple <<l0, l1, l2, l3>> of its four 16-bit limbs, *)
(* l0 the least significant (bits 0-15), l3 the most significant (bits     *)
(* 48-63); signed words are their two's-complement pattern.  A 32-bit word *)
(* is the tuple <<l0, l1>>.                                                *)
(***************************************************************************)
EXTENDS Integers, Sequences, FiniteSets, TLC

VARIABLES
    \* ---- coordinate / codec calls (SpecCodec)
    op,        \* the codec or hash operation applied last
    pos,       \* v4s16 argument
    pos2,      \* second v4s16 argument (hash and key comparisons)
    p3,        \* v3s16 argument of the legacy codec
    key,       \* s64 key of pos (or of p3), as limbs
    key2,      \* s64 key of pos2
    blockOut,  \* coordinate decoded from key
    hash,      \* v4s16::Hash of pos (64-bit size_t, as limbs)
    hash2,     \* v4s16::Hash of pos2
    args,      \* the integer arguments of the constructor call made last
    \* ---- phase seed modification of ServerMap::emergeBlock (SpecSeed)
    seed,                 \* the world's base seed, getSeed(): a u64
    m_emerge,             \* whether the map has an emerge manager
    mapgen_seed,          \* m_emerge->mapgen->seed: an s32, shared by all phases
    phase_modified_seed,  \* the sum emergeBlock computed last, before narrowing
    genPos,               \* the coordinate generated last
    genSeed,              \* the mapgen seed that generation ran with
    seed2,                \* the base seed of a second world
    mapgen_seed2,         \* the mapgen seed of the second world
    genPos2,              \* the coordinate the second world generated last
    \* ---- the phase generation registry of Server (SpecRegistry)
    m_phase_generators,   \* phase -> the generation strategy registered for it
    resolved,             \* the last resolution: the phase and its strategy
    \* ---- the block store of Map (Spec)
    m_blocks,        \* unordered_map<v4s16, MapBlock*>: present keys -> block
    m_blocks_mutex,  \* the thread that holds the store lock, or NoThread
    mapAlive,        \* FALSE once ~Map has run
    blockState,      \* per MapBlock: "unallocated", "live" or "released"
    orphaned,        \* per MapBlock: its orphan flag (as it was at release)
    releasedBy,      \* per MapBlock: the routine that deleted it
    pc,              \* per thread: "idle" or its step inside a removal
    mode,            \* per thread: the routine it is running
    it,              \* per thread: the key of the entry it is removing
    todo,            \* per thread: keys its iteration has still to visit
    held,            \* per thread: the MapBlock* its last call returned
    grabbed,         \* per thread: whether it holds a reference count
    flagSeen,        \* per thread: what its last orphan check read
    form,            \* the overload of the store call made last
    gotRemoved,      \* per thread: its last lookup returned a deleted block
    uaf,             \* some thread accessed a block after its release
    stored,          \* per key: the block the last insert stored there, NULL
                     \* from the moment a removal of the key has found it
    skipped          \* the blocks that the running eviction pass has passed
                     \* over because they had holders

codecVars == <<op, pos, pos2, p3, key, key2, blockOut, hash, hash2, args>>
registryVars == <<m_phase_generators, resolved>>
seedVars == <<seed, m_emerge, mapgen_seed, phase_modified_seed, genPos, genSeed,
              seed2, mapgen_seed2, genPos2, registryVars>>

storeVars == <<m_blocks, m_blocks_mutex, mapAlive, blockState, orphaned,
               releasedBy, pc, mode, it, todo, held, grabbed, flagSeen, form,
               gotRemoved, uaf, stored, skipped>>

vars == <<codecVars, seedVars, storeVars>>

-----------------------------------------------------------------------------
(* Fixed-width arithmetic on limbs *)

LimbBits == 16
LimbBase == 2^16

Pow2(n) == 2^n

\* (u16)v for an s16 (or any small integer) v: the low 16 bits
U16(v) == ((v % LimbBase) + LimbBase) % LimbBase

\* (s16)u for a 16-bit pattern u
S16(u) == IF u >= Pow2(15) THEN u - LimbBase ELSE u

\* zero extension of a 16-bit pattern to 64 bits: (s64)u, (size_t)u, (u64)u
Ext64(u) == <<u, 0, 0, 0>>

\* sign extension of an s16 to s64: (s64)v
SignExt64(v) == LET f == IF v < 0 THEN LimbBase - 1 ELSE 0 IN <<U16(v), f, f, f>>

\* limb i of w, 0 below the word, fill above it
LimbAt(w, i, fill) == IF i < 1 THEN 0 ELSE IF i > Len(w) THEN fill ELSE w[i]

\* w << k on a 64-bit word, bits shifted out at the top are lost
Shl64(w, k) ==
    LET q == k \div LimbBits
        r == k % LimbBits
    IN  [i \in 1..4 |->
            ((LimbAt(w, i - q, 0) * Pow2(r)) % LimbBase)
          + ((LimbAt(w, i - q - 1, 0) * Pow2(r)) \div LimbBase)]

\* w >> k on an s64 (arithmetic: the sign fills from the top)
Sar64(w, k) ==
    LET q == k \div LimbBits
        r == k % LimbBits
        f == IF w[4] >= Pow2(15) THEN LimbBase - 1 ELSE 0
    IN  [i \in 1..4 |->
            (LimbAt(w, i + q, f) \div Pow2(r))
          + ((LimbAt(w, i + q + 1, f) % Pow2(r)) * Pow2(LimbBits - r))]

\* carry into limb i of a + b
RECURSIVE Carry(_, _, _)
Carry(a, b, i) ==
    IF i = 1 THEN 0 ELSE (a[i-1] + b[i-1] + Carry(a, b, i - 1)) \div LimbBase

\* a + b modulo 2^64 (modulo 2^(16 * Len(a)) in general)
Add64(a, b) == [i \in 1..Len(a) |-> (a[i] + b[i] + Carry(a, b, i)) % LimbBase]

\* bitwise operations on 16-bit patterns
RECURSIVE BitAnd(_, _, _)
BitAnd(a, b, n) ==
    IF n = 0 \/ a = 0 \/ b = 0 THEN 0
    ELSE ((a % 2) * (b % 2)) + 2 * BitAnd(a \div 2, b \div 2, n - 1)

RECURSIVE BitXor(_, _, _)
BitXor(a, b, n) ==
    IF n = 0 THEN 0
    ELSE IF a = 0 THEN b
    ELSE IF b = 0 THEN a
    ELSE (((a % 2) + (b % 2)) % 2) + 2 * BitXor(a \div 2, b \div 2, n - 1)

And64(a, b) == [i \in 1..4 |-> BitAnd(a[i], b[i], LimbBits)]
Xor64(a, b) == [i \in 1..4 |-> BitXor(a[i], b[i], LimbBits)]

\* bitwise complement, two's-complement negation and a - b modulo 2^64
Not64(a) == [i \in 1..4 |-> (LimbBase - 1) - a[i]]
Neg64(a) == Add64(Not64(a), <<1, 0, 0, 0>>)
Sub64(a, b) == Add64(a, Neg64(b))

\* (s32)w: the low 32 bits of a 64-bit word
Narrow32(w) == <<w[1], w[2]>>

\* (s64)v or (u64)v of an s32 v: sign extension
SignExt32(v) == LET f == IF v[2] >= Pow2(15) THEN LimbBase - 1 ELSE 0
                IN  <<v[1], v[2], f, f>>

\* the integer value of a word known to be below 2^16 * 2^15
Small(w) == w[1] + LimbBase * w[2]

\* no word, no coordinate
NoKey == <<>>
NoPos == [none |-> TRUE]

\* no codec call is in progress (the other specifications)
CodecIdle ==
    /\ op = "idle" /\ pos = NoPos /\ pos2 = NoPos /\ p3 = NoPos
    /\ key = NoKey /\ key2 = NoKey /\ blockOut = NoPos
    /\ hash = NoKey /\ hash2 = NoKey /\ args = NoKey

\* no registry is modelled (the other specifications)
RegistryIdle == m_phase_generators = <<>> /\ resolved = NoPos

\* no world is modelled (the other specifications)
WorldIdle ==
    /\ seed = NoKey /\ m_emerge = FALSE /\ mapgen_seed = NoKey
    /\ phase_modified_seed = NoKey /\ genPos = NoPos /\ genSeed = NoKey
    /\ seed2 = NoKey /\ mapgen_seed2 = NoKey /\ genPos2 = NoPos

\* no generation is modelled (the other specifications)
SeedIdle == WorldIdle /\ RegistryIdle

\* no store is modelled (the other specifications)
StoreIdle ==
    /\ m_blocks = <<>> /\ m_blocks_mutex = "none" /\ mapAlive = FALSE
    /\ blockState = <<>> /\ orphaned = <<>> /\ releasedBy = <<>>
    /\ pc = <<>> /\ mode = <<>> /\ it = <<>> /\ todo = <<>> /\ held = <<>>
    /\ grabbed = <<>> /\ flagSeen = <<>> /\ form = "none" /\ gotRemoved = <<>>
    /\ uaf = FALSE /\ stored = <<>> /\ skipped = {}

-----------------------------------------------------------------------------
(* irr_v3d.h: v4s16 *)

v3s16(x, y, z) == [X |-> x, Y |-> y, Z |-> z]

\* v4s16(s16 x, s16 y, s16 z, s16 p = 0)
v4s16(x, y, z, p) == [X |-> x, Y |-> y, Z |-> z, P |-> p]

\* a conversion that initialises P from the last axis instead of from p
v4s16_from_v3s16_PFromZ(v, p) == [X |-> v.X, Y |-> v.Y, Z |-> v.Z, P |-> v.Z]

\* v4s16(const v3s16& pos, s16 p = 0)
v4s16_from_v3s16(v, p) == [X |-> v.X, Y |-> v.Y, Z |-> v.Z, P |-> p]

\* an equality that compares the three axes and not the phase
v4s16_eq_IgnoresP(a, b) == a.X = b.X /\ a.Y = b.Y /\ a.Z = b.Z

\* bool operator==(const v4s16& other) const
v4s16_eq(a, b) == a.X = b.X /\ a.Y = b.Y /\ a.Z = b.Z /\ a.P = b.P

\* a projection that returns the axes in the order X, Z, Y
toV3s16_YZSwapped(c) == [X |-> c.X, Y |-> c.Z, Z |-> c.Y]

\* v3s16 toV3s16() const
toV3s16(c) == v3s16(c.X, c.Y, c.Z)

\* a hash whose Z lane is not shifted: Z and P share bits 0-15
Hash_ZUnshifted(c) ==
    Xor64(Xor64(Xor64(Shl64(Ext64(U16(c.X)), 48), Shl64(Ext64(U16(c.Y)), 32)),
                Ext64(U16(c.Z))),
          Ext64(U16(c.P)))

\* a hash without the conversion to unsigned: (size_t) of a negative s16
\* sets every bit above its lane
Hash_SignExtended(c) ==
    Xor64(Xor64(Xor64(Shl64(SignExt64(c.X), 48), Shl64(SignExt64(c.Y), 32)),
                Shl64(SignExt64(c.Z), 16)),
          SignExt64(c.P))

\* size_t v4s16::Hash::operator()(const v4s16& pos) const, 64-bit size_t
Hash(c) ==
    LET x == U16(c.X)
        y == U16(c.Y)
        z == U16(c.Z)
        p == U16(c.P)
    IN  Xor64(Xor64(Xor64(Shl64(Ext64(x), 48), Shl64(Ext64(y), 32)),
                    Shl64(Ext64(z), 16)),
              Ext64(p))

-----------------------------------------------------------------------------
(* database.cpp: MapDatabase position codecs *)

\* the legacy encoding with Y shifted by 16 instead of 12
getBlockAsInteger_v3s16_Shift16(v) ==
    Add64(Add64(Shl64(SignExt64(v.Z), 24), Shl64(SignExt64(v.Y), 16)),
          SignExt64(v.X))

\* s64 MapDatabase::getBlockAsInteger(const v3s16 &pos)
\* (a left shift of a negative s64 is the two's-complement shift on every
\*  build of the engine, and defined as such since C++20)
getBlockAsInteger_v3s16(v) ==
    Add64(Add64(Shl64(SignExt64(v.Z), 24), Shl64(SignExt64(v.Y), 12)),
          SignExt64(v.X))

\* 0x800800800 and the masks of the decoders
Offset800800800 == <<2048, 128, 8, 0>>
MaskFFF  == <<4095, 0, 0, 0>>
MaskFFFF == <<LimbBase - 1, 0, 0, 0>>

\* the legacy decoder without the 0x800 offsets: the 12-bit fields are
\* read as unsigned values
getIntegerAsBlock_v3s16_NoOffset(i0) ==
    v3s16(S16(Small(And64(i0, MaskFFF))),
          S16(Small(And64(Sar64(i0, 12), MaskFFF))),
          S16(Small(And64(Sar64(i0, 24), MaskFFF))))

\* v3s16 MapDatabase::getIntegerAsBlock(s64 i)
getIntegerAsBlock_v3s16(i0) ==
    LET i == Add64(i0, Offset800800800)
    IN  v3s16(S16(U16(Small(And64(i, MaskFFF)) - 2048)),
              S16(U16(Small(And64(Sar64(i, 12), MaskFFF)) - 2048)),
              S16(U16(Small(And64(Sar64(i, 24), MaskFFF)) - 2048)))

\* the 4D encoding with the lanes in the order of v4s16::Hash: X in the
\* highest lane, the phase in the lowest
getBlockAsInteger_v4s16_HashOrder(c) ==
    Add64(Add64(Add64(Shl64(Ext64(U16(c.X)), 48), Shl64(Ext64(U16(c.Y)), 32)),
                Shl64(Ext64(U16(c.Z)), 16)),
          Ext64(U16(c.P)))

\* the 4D encoding without the conversion to unsigned: each s16 is sign
\* extended, so a negative low lane borrows from the lanes above it
getBlockAsInteger_v4s16_Signed(c) ==
    Add64(Add64(Add64(Shl64(SignExt64(c.P), 48), Shl64(SignExt64(c.Z), 32)),
                Shl64(SignExt64(c.Y), 16)),
          SignExt64(c.X))

\* s64 MapDatabase::getBlockAsInteger(const v4s16 &pos)
getBlockAsInteger_v4s16(c) ==
    LET x == U16(c.X)
        y == U16(c.Y)
        z == U16(c.Z)
        p == U16(c.P)
    IN  Add64(Add64(Add64(Shl64(Ext64(p), 48), Shl64(Ext64(z), 32)),
                    Shl64(Ext64(y), 16)),
              Ext64(x))

\* v4s16 MapDatabase::getIntegerAsBlock(s64 i), the 4D decoder
getIntegerAsBlock_v4s16(i) ==
    v4s16(S16(Small(And64(i, MaskFFFF))),
          S16(Small(And64(Sar64(i, 16), MaskFFFF))),
          S16(Small(And64(Sar64(i, 32), MaskFFFF))),
          S16(Small(And64(Sar64(i, 48), MaskFFFF))))

-----------------------------------------------------------------------------
(* map.cpp: the block store, Map::m_blocks under m_blocks_mutex *)

\* the world's main thread, which also runs timerUpdate and ~Map, and a
\* generation (emerge) worker
Threads == {"main", "emerge"}
MainThread == "main"
NoThread == "none"

\* MapBlock allocations over a run
MaxBlocks == 2
BlockIds == 1..MaxBlocks
NULL == 0

\* the default of the phase parameter: s16 p = 0
DefaultPhase == 0

\* keys of the store: one 3-axis position in two phases
V3Keys == {v3s16(10, 20, 30)}
StorePhases == {DefaultPhase, 1}
StoreKeys == {v4s16(v.X, v.Y, v.Z, ph) : v \in V3Keys, ph \in StorePhases}

Unchecked == [checked |-> FALSE]

InitStore ==
    /\ m_blocks = <<>>
    /\ m_blocks_mutex = NoThread
    /\ mapAlive = TRUE
    /\ blockState = [b \in BlockIds |-> "unallocated"]
    /\ orphaned = [b \in BlockIds |-> FALSE]
    /\ releasedBy = [b \in BlockIds |-> "none"]
    /\ pc = [t \in Threads |-> "idle"]
    /\ mode = [t \in Threads |-> "none"]
    /\ it = [t \in Threads |-> NoPos]
    /\ todo = [t \in Threads |-> {}]
    /\ held = [t \in Threads |-> NULL]
    /\ grabbed = [t \in Threads |-> FALSE]
    /\ flagSeen = [t \in Threads |-> Unchecked]
    /\ form = "none"
    /\ gotRemoved = [t \in Threads |-> FALSE]
    /\ uaf = FALSE
    /\ stored = [k \in StoreKeys |-> NULL]
    /\ skipped = {}

Init == CodecIdle /\ SeedIdle /\ InitStore

\* m.find(c): the key of the entry that operator== matches with c, NoPos
\* for end()
find(m, c) ==
    IF \E k \in DOMAIN m : v4s16_eq(k, c)
    THEN CHOOSE k \in DOMAIN m : v4s16_eq(k, c)
    ELSE NoPos

\* a lookup that projects the key to its three axes: every phase reads the
\* Phase-0 entry
Lookup_PhaseZero(c) ==
    IF find(m_blocks, v4s16_from_v3s16(toV3s16(c), 0)) # NoPos
    THEN m_blocks[find(m_blocks, v4s16_from_v3s16(toV3s16(c), 0))]
    ELSE NULL

\* m_blocks.find(c): the block of a present key, NULL for an absent one
Lookup(c) ==
    IF find(m_blocks, c) # NoPos THEN m_blocks[find(m_blocks, c)] ELSE NULL

\* m[c] = b: the entry of c is overwritten, or created if there is none
Put(m, c, b) ==
    LET k == IF find(m, c) # NoPos THEN find(m, c) ELSE c
    IN  [j \in (DOMAIN m) \cup {k} |-> IF j = k THEN b ELSE m[j]]

\* an erase that leaves the entry in the table
Erase_Nothing(m, c) == m

\* m.erase(it)
Erase(m, c) == [k \in (DOMAIN m) \ {c} |-> m[k]]

\* a reference count that never shows a holder
refGet_Zero(b) == 0

\* some thread holds a reference count on the block
HasHolders(b) == \E t \in Threads : grabbed[t] /\ held[t] = b

\* MapBlock::refGet(): the threads that grabbed the block
refGet(b) == Cardinality({t \in Threads : grabbed[t] /\ held[t] = b})

\* a caller may start a store call: it is in no call, and takes the lock
CanLock(t) == mapAlive /\ pc[t] = "idle" /\ m_blocks_mutex = NoThread

\* get: the lookup, under the lock; the caller keeps the pointer returned
GetEffect(t, c) ==
    /\ CanLock(t)
    /\ ~grabbed[t]
    /\ held' = [held EXCEPT ![t] = Lookup(c)]
    /\ flagSeen' = [flagSeen EXCEPT ![t] = Unchecked]
    /\ gotRemoved' = [gotRemoved EXCEPT ![t] =
                         Lookup(c) # NULL /\ blockState[Lookup(c)] = "released"]
    /\ UNCHANGED <<m_blocks, m_blocks_mutex, mapAlive, blockState, orphaned,
                   releasedBy, pc, mode, it, todo, grabbed, uaf, stored,
                   skipped>>

\* insert: a new block is stored at c under the lock, and the block that
\* was there, if any, is returned to the caller
InsertEffect(t, c) ==
    /\ CanLock(t)
    /\ ~grabbed[t]
    /\ \E b \in BlockIds :
        /\ blockState[b] = "unallocated"
        /\ \A a \in BlockIds : blockState[a] = "unallocated" => a >= b
        /\ blockState' = [blockState EXCEPT ![b] = "live"]
        /\ m_blocks' = Put(m_blocks, c, b)
        /\ stored' = [stored EXCEPT ![c] = b]
    /\ held' = [held EXCEPT ![t] = Lookup(c)]
    /\ flagSeen' = [flagSeen EXCEPT ![t] = Unchecked]
    /\ gotRemoved' = [gotRemoved EXCEPT ![t] = FALSE]
    /\ UNCHANGED <<m_blocks_mutex, mapAlive, orphaned, releasedBy, pc, mode,
                   it, todo, grabbed, uaf, skipped>>

\* a deleteBlock without the test against end(): the entry is taken to exist
DeleteEffect_NoEndTest(t, c) ==
    /\ CanLock(t)
    /\ m_blocks_mutex' = t
    /\ mode' = [mode EXCEPT ![t] = "deleteBlock"]
    /\ it' = [it EXCEPT ![t] = c]
    /\ pc' = [pc EXCEPT ![t] = "orphan"]
    /\ stored' = [stored EXCEPT ![c] = NULL]
    /\ UNCHANGED <<m_blocks, mapAlive, blockState, orphaned, releasedBy, todo,
                   held, grabbed, flagSeen, gotRemoved, uaf, skipped>>

\* deleteBlock, up to the find: auto it = m_blocks.find(pos);
\* an absent key leaves the store as it is
DeleteEffect(t, c) ==
    /\ CanLock(t)
    /\ IF find(m_blocks, c) # NoPos
       THEN /\ m_blocks_mutex' = t
            /\ mode' = [mode EXCEPT ![t] = "deleteBlock"]
            /\ it' = [it EXCEPT ![t] = find(m_blocks, c)]
            /\ pc' = [pc EXCEPT ![t] =
                        IF Lookup(c) # NULL THEN "orphan" ELSE "erase"]
            /\ stored' = [stored EXCEPT ![find(m_blocks, c)] = NULL]
       ELSE UNCHANGED <<m_blocks_mutex, mode, it, pc, stored>>
    /\ UNCHANGED <<m_blocks, mapAlive, blockState, orphaned, releasedBy, todo,
                   held, grabbed, flagSeen, gotRemoved, uaf, skipped>>

\* the overload called is noted; a store call touches nothing else
Called(t, f) ==
    /\ form' = f
    /\ UNCHANGED <<codecVars, seedVars>>

\* the 4-axis operations
getBlockNoCreateNoEx(t, c) == GetEffect(t, c) /\ Called(t, "v4s16")
insertBlock(t, c) == InsertEffect(t, c) /\ Called(t, "v4s16")
deleteBlock(t, c) == DeleteEffect(t, c) /\ Called(t, "v4s16")

\* the 3-axis operations: the same, on v4s16(pos) with the phase defaulted
getBlockNoCreateNoEx_v3s16(t, v) ==
    GetEffect(t, v4s16_from_v3s16(v, DefaultPhase)) /\ Called(t, "v3s16")
insertBlock_v3s16(t, v) ==
    InsertEffect(t, v4s16_from_v3s16(v, DefaultPhase)) /\ Called(t, "v3s16")
deleteBlock_v3s16(t, v) ==
    DeleteEffect(t, v4s16_from_v3s16(v, DefaultPhase)) /\ Called(t, "v3s16")

\* makeOrphan left out
makeOrphan_Skipped(b) == orphaned

\* block->makeOrphan();
makeOrphan(b) == [orphaned EXCEPT ![b] = TRUE]

\* a removal reaches block->makeOrphan()
MakeOrphanStep(t) ==
    /\ UNCHANGED <<codecVars, seedVars>>
    /\ pc[t] = "orphan"
    /\ orphaned' = makeOrphan(m_blocks[it[t]])
    /\ pc' = [pc EXCEPT ![t] = "delete"]
    /\ UNCHANGED <<m_blocks, m_blocks_mutex, mapAlive, blockState, releasedBy,
                   mode, it, todo, held, grabbed, flagSeen, form, gotRemoved,
                   uaf, stored, skipped>>

\* delete block;
DeleteStep(t) ==
    /\ UNCHANGED <<codecVars, seedVars>>
    /\ pc[t] = "delete"
    /\ blockState' = [blockState EXCEPT ![m_blocks[it[t]]] = "released"]
    /\ releasedBy' = [releasedBy EXCEPT ![m_blocks[it[t]]] = mode[t]]
    /\ pc' = [pc EXCEPT ![t] = "erase"]
    /\ UNCHANGED <<m_blocks, m_blocks_mutex, mapAlive, orphaned, mode, it,
                   todo, held, grabbed, flagSeen, form, gotRemoved, uaf,
                   stored, skipped>>

\* m_blocks.erase(it); deleteBlock then returns and the lock is released,
\* an iteration goes on to its next entry
EraseStep(t) ==
    /\ UNCHANGED <<codecVars, seedVars>>
    /\ pc[t] = "erase"
    /\ m_blocks' = Erase(m_blocks, it[t])
    /\ it' = [it EXCEPT ![t] = NoPos]
    /\ IF mode[t] = "deleteBlock"
       THEN /\ pc' = [pc EXCEPT ![t] = "idle"]
            /\ mode' = [mode EXCEPT ![t] = "none"]
            /\ m_blocks_mutex' = NoThread
       ELSE /\ pc' = [pc EXCEPT ![t] = "scan"]
            /\ UNCHANGED <<mode, m_blocks_mutex>>
    /\ UNCHANGED <<mapAlive, blockState, orphaned, releasedBy, todo, held,
                   grabbed, flagSeen, form, gotRemoved, uaf, stored, skipped>>

\* Map::timerUpdate: the eviction pass takes the lock and visits m_blocks
timerUpdate(t) ==
    /\ UNCHANGED <<codecVars, seedVars>>
    /\ t = MainThread
    /\ CanLock(t)
    /\ m_blocks_mutex' = t
    /\ mode' = [mode EXCEPT ![t] = "timerUpdate"]
    /\ todo' = [todo EXCEPT ![t] = DOMAIN m_blocks]
    /\ pc' = [pc EXCEPT ![t] = "scan"]
    /\ UNCHANGED <<m_blocks, mapAlive, blockState, orphaned, releasedBy, it,
                   held, grabbed, flagSeen, form, gotRemoved, uaf, stored,
                   skipped>>

\* Map::~Map: every block is orphaned and deleted, under the lock
Map_destructor(t) ==
    /\ UNCHANGED <<codecVars, seedVars>>
    /\ t = MainThread
    /\ CanLock(t)
    /\ m_blocks_mutex' = t
    /\ mode' = [mode EXCEPT ![t] = "~Map"]
    /\ todo' = [todo EXCEPT ![t] = DOMAIN m_blocks]
    /\ pc' = [pc EXCEPT ![t] = "scan"]
    /\ UNCHANGED <<m_blocks, mapAlive, blockState, orphaned, releasedBy, it,
                   held, grabbed, flagSeen, form, gotRemoved, uaf, stored,
                   skipped>>

\* an iteration visits its next entry.  timerUpdate removes the entry when
\* the block has been unused for longer than the unload timeout (expired)
\* and nobody holds a reference count on it, and skips it otherwise; ~Map
\* removes every entry.
ScanStep(t) ==
    /\ UNCHANGED <<codecVars, seedVars>>
    /\ pc[t] = "scan"
    /\ todo[t] # {}
    /\ \E k \in todo[t], expired \in BOOLEAN :
        /\ todo' = [todo EXCEPT ![t] = @ \ {k}]
        /\ IF mode[t] = "~Map" \/ (expired /\ refGet(m_blocks[k]) = 0)
           THEN /\ it' = [it EXCEPT ![t] = k]
                /\ pc' = [pc EXCEPT ![t] = "orphan"]
                /\ stored' = [stored EXCEPT ![k] = NULL]
           ELSE UNCHANGED <<it, pc, stored>>
        /\ skipped' = IF mode[t] = "timerUpdate" /\ HasHolders(m_blocks[k])
                      THEN skipped \cup {m_blocks[k]}
                      ELSE skipped
    /\ UNCHANGED <<m_blocks, m_blocks_mutex, mapAlive, blockState, orphaned,
                   releasedBy, mode, held, grabbed, flagSeen, form, gotRemoved,
                   uaf>>

\* the iteration is over: the lock is released; after ~Map the store is gone
ScanEnd(t) ==
    /\ UNCHANGED <<codecVars, seedVars>>
    /\ pc[t] = "scan"
    /\ todo[t] = {}
    /\ pc' = [pc EXCEPT ![t] = "idle"]
    /\ mapAlive' = (mode[t] # "~Map")
    /\ mode' = [mode EXCEPT ![t] = "none"]
    /\ m_blocks_mutex' = NoThread
    /\ skipped' = {}
    /\ UNCHANGED <<m_blocks, blockState, orphaned, releasedBy, it, todo, held,
                   grabbed, flagSeen, form, gotRemoved, uaf, stored>>

\* the removal of block b is complete: deleted, erased, the routine moved on
RemovalDone(b) ==
    /\ blockState[b] = "released"
    /\ \A t \in Threads : pc[t] = "erase" => m_blocks[it[t]] # b

\* A holder re-checks block->isOrphan() on the pointer it kept, without the
\* store lock.  The flag lives in the block: once the block is deleted the
\* read is of released memory and may return either value.  A holder that
\* reads true gives the pointer up.
Recheck(t) ==
    /\ UNCHANGED <<codecVars, seedVars>>
    /\ pc[t] = "idle"
    /\ held[t] # NULL
    /\ \E v \in BOOLEAN :
        /\ blockState[held[t]] # "released" => v = orphaned[held[t]]
        /\ flagSeen' = [flagSeen EXCEPT ![t] =
              [checked |-> TRUE, value |-> v,
               afterRemoval |-> RemovalDone(held[t])]]
        /\ held' = [held EXCEPT ![t] = IF v THEN NULL ELSE @]
        /\ grabbed' = [grabbed EXCEPT ![t] = IF v THEN FALSE ELSE @]
    /\ uaf' = (uaf \/ blockState[held[t]] = "released")
    /\ UNCHANGED <<m_blocks, m_blocks_mutex, mapAlive, blockState, orphaned,
                   releasedBy, pc, mode, it, todo, form, gotRemoved, stored,
                   skipped>>

\* A holder that read false uses the block (its payload, its dirty flag, or
\* refGrab / refDrop on it); it checks again before the next use.
Use(t) ==
    /\ UNCHANGED <<codecVars, seedVars>>
    /\ pc[t] = "idle"
    /\ held[t] # NULL
    /\ flagSeen[t].checked /\ ~flagSeen[t].value
    /\ flagSeen' = [flagSeen EXCEPT ![t] = Unchecked]
    /\ \E g \in BOOLEAN : grabbed' = [grabbed EXCEPT ![t] = g]
    /\ uaf' = (uaf \/ blockState[held[t]] = "released")
    /\ UNCHANGED <<m_blocks, m_blocks_mutex, mapAlive, blockState, orphaned,
                   releasedBy, pc, mode, it, todo, held, form, gotRemoved,
                   stored, skipped>>

Next ==
    \/ \E t \in Threads, c \in StoreKeys : getBlockNoCreateNoEx(t, c)
    \/ \E t \in Threads, c \in StoreKeys : insertBlock(t, c)
    \/ \E t \in Threads, c \in StoreKeys : deleteBlock(t, c)
    \/ \E t \in Threads, v \in V3Keys : getBlockNoCreateNoEx_v3s16(t, v)
    \/ \E t \in Threads, v \in V3Keys : insertBlock_v3s16(t, v)
    \/ \E t \in Threads, v \in V3Keys : deleteBlock_v3s16(t, v)
    \/ \E t \in Threads : MakeOrphanStep(t)
    \/ \E t \in Threads : DeleteStep(t)
    \/ \E t \in Threads : EraseStep(t)
    \/ \E t \in Threads : timerUpdate(t)
    \/ \E t \in Threads : Map_destructor(t)
    \/ \E t \in Threads : ScanStep(t)
    \/ \E t \in Threads : ScanEnd(t)
    \/ \E t \in Threads : Recheck(t)
    \/ \E t \in Threads : Use(t)

Spec == Init /\ [][Next]_vars

-----------------------------------------------------------------------------
(* servermap.cpp: the phase seed modification of ServerMap::emergeBlock *)

\* u16 phase_id = (u16)p.P;
phase_id(p) == U16(p.P)

\* the sum taken in 32 bits: s32 base_seed = (s32)getSeed();
\* s32 phase_modified_seed = base_seed + phase_id;
phase_modified_seed_s32(base_seed, id) ==
    SignExt32(Add64(Narrow32(base_seed), <<id, 0>>))

\* the seed the earlier code assigned to the mapgen:
\* s32 base_seed = (s32)getSeed(); s32 phase_modified_seed = base_seed +
\* phase_id; m_emerge->mapgen->seed = phase_modified_seed; the sum as a
\* 32-bit pattern (where it leaves the s32 range, the sum modulo 2^32)
mapgen_seed_s32(base_seed, id) == Add64(Narrow32(base_seed), <<id, 0>>)

\* the 64-bit sum with the phase added as a signed value: for a negative
\* phase the sum is 2^16 below the sum with the unsigned phase_id
phase_modified_seed_u64_SignedPhase(base_seed, id) ==
    Add64(base_seed, SignExt64(S16(id)))

\* u64 base_seed = getSeed(); u64 phase_modified_seed = base_seed + phase_id;
phase_modified_seed_u64(base_seed, id) == Add64(base_seed, Ext64(id))

\* getSeed() of the worlds modelled, as limbs:
\* 0, 1, 0x7FFFFFFF, 0xFFFFFFFF, 0x100000000, 0x123456789ABCDEF0, 2^64 - 1
SeedSamples ==
    { <<0, 0, 0, 0>>, <<1, 0, 0, 0>>, <<65535, 32767, 0, 0>>,
      <<65535, 65535, 0, 0>>, <<0, 0, 1, 0>>, <<57072, 39612, 22136, 4660>>,
      <<65535, 65535, 65535, 65535>> }

\* phases of the blocks requested
PhaseSamples == {-32768, -1, 0, 1, 5, 101, 32767}

\* the mapgen of each world is created with the world's seed
InitSeed ==
    /\ CodecIdle
    /\ StoreIdle
    /\ RegistryIdle
    /\ seed \in SeedSamples
    /\ m_emerge \in BOOLEAN
    /\ mapgen_seed = Narrow32(seed)
    /\ phase_modified_seed = NoKey
    /\ genPos = NoPos
    /\ genSeed = NoKey
    /\ seed2 \in SeedSamples
    /\ mapgen_seed2 = Narrow32(seed2)
    /\ genPos2 = NoPos

\* ServerMap::emergeBlock(p): if (p.P != 0 && m_emerge) the mapgen seed is
\* overwritten with the narrowed sum; the block is then generated by the
\* mapgen with the seed it holds.  Without an emerge manager nothing is
\* generated.
emergeBlock(p) ==
    /\ IF p.P # 0 /\ m_emerge
       THEN /\ phase_modified_seed' = phase_modified_seed_u64(seed, phase_id(p))
            /\ mapgen_seed' = Narrow32(phase_modified_seed')
       ELSE /\ phase_modified_seed' = NoKey
            /\ mapgen_seed' = mapgen_seed
    /\ IF m_emerge
       THEN genPos' = p /\ genSeed' = mapgen_seed'
       ELSE genPos' = NoPos /\ genSeed' = NoKey
    /\ UNCHANGED <<seed, m_emerge, seed2, mapgen_seed2, genPos2, registryVars>>
    /\ UNCHANGED <<codecVars, storeVars>>

\* ServerMap::emergeBlock(p) of the second world: the same seed
\* modification, on that world's base seed and mapgen
emergeBlock2(p) ==
    /\ mapgen_seed2' =
          IF p.P # 0 /\ m_emerge
          THEN Narrow32(phase_modified_seed_u64(seed2, phase_id(p)))
          ELSE mapgen_seed2
    /\ genPos2' = IF m_emerge THEN p ELSE NoPos
    /\ UNCHANGED <<seed, m_emerge, mapgen_seed, phase_modified_seed, genPos,
                   genSeed, seed2, registryVars>>
    /\ UNCHANGED <<codecVars, storeVars>>

EmergePositions == {v3s16(0, 0, 0), v3s16(10, 20, 30)}

NextSeed ==
    \/ \E ph \in PhaseSamples, v \in EmergePositions :
            emergeBlock(v4s16_from_v3s16(v, ph))
    \/ \E ph \in PhaseSamples, v \in EmergePositions :
            emergeBlock2(v4s16_from_v3s16(v, ph))

SpecSeed == InitSeed /\ [][NextSeed]_vars

-----------------------------------------------------------------------------
(* server.h: the phase generation registry *)

\* generation strategies: the canonical mapgen of Phase 0, true void, and
\* generators that mods register
CanonicalStrategy == "canonical"
VoidStrategy == "void"
CustomStrategies == {"liminal", "custom"}
Strategies == {CanonicalStrategy, VoidStrategy} \cup CustomStrategies

\* the declared valid range of phase identifiers: 0 .. MaxValidPhase
MaxValidPhase == 1000
ValidPhases == 0..MaxValidPhase

\* a resolution without the fallbacks: only registered phases resolve
resolveGenerator_NoFallback(reg, phase) ==
    IF phase \in DOMAIN reg THEN reg[phase] ELSE "none"

\* resolveGenerator(phase): an identifier outside the valid range resolves
\* as Phase 0, a valid phase to the strategy registered for it, and to void
\* when none is registered
resolveGenerator(reg, phase) ==
    IF phase \notin ValidPhases THEN reg[0]
    ELSE IF phase \in DOMAIN reg THEN reg[phase]
    ELSE VoidStrategy

\* phases that generators are registered for, and phases that are resolved
RegisterSamples == {1, 42, 101}
ResolveSamples == {-32768, -1, 0, 1, 5, 42, 101, 1000, 1001, 32767}

\* Phase 0 is the canonical world; nothing else is registered
InitRegistry ==
    /\ CodecIdle
    /\ StoreIdle
    /\ WorldIdle
    /\ m_phase_generators = [ph \in {0} |-> CanonicalStrategy]
    /\ resolved = NoPos

\* server->registerPhaseGenerator(phase, generator)
registerPhaseGenerator(phase, g) ==
    /\ phase \in ValidPhases
    /\ m_phase_generators' =
          [ph \in (DOMAIN m_phase_generators) \cup {phase} |->
              IF ph = phase THEN g ELSE m_phase_generators[ph]]
    /\ UNCHANGED resolved
    /\ UNCHANGED <<seed, m_emerge, mapgen_seed, phase_modified_seed, genPos,
                   genSeed, seed2, mapgen_seed2, genPos2>>
    /\ UNCHANGED <<codecVars, storeVars>>

\* a generation worker resolves the strategy of a phase
Resolve(phase) ==
    /\ resolved' = [phase |-> phase,
                    generator |-> resolveGenerator(m_phase_generators, phase)]
    /\ UNCHANGED m_phase_generators
    /\ UNCHANGED <<seed, m_emerge, mapgen_seed, phase_modified_seed, genPos,
                   genSeed, seed2, mapgen_seed2, genPos2>>
    /\ UNCHANGED <<codecVars, storeVars>>

NextRegistry ==
    \/ \E ph \in RegisterSamples, g \in CustomStrategies :
            registerPhaseGenerator(ph, g)
    \/ \E ph \in ResolveSamples : Resolve(ph)

SpecRegistry == InitRegistry /\ [][NextRegistry]_vars

-----------------------------------------------------------------------------
(* Inputs of the codec and hash calls *)

\* s16 values at the edges of the 16-bit and of the legacy 12-bit range
S16Samples == {-32768, -2047, -1, 0, 1, 2047, 32767}
\* s16 values for pairs of coordinates
PairSamples == {-1, 0, 1}

Coords(S) == {v4s16(x, y, z, p) : x \in S, y \in S, z \in S, p \in S}

ScenarioA == v4s16(10, 20, 30, 0)

\* s16 values on both sides of the edges of the legacy 12-bit range, and
\* the Phase-0 coordinates over them
LegacySamples ==
    {-32768, -2049, -2048, -1, 0, 1, 257, 272, 2047, 2048, 4096, 32767}
LegacyCoords ==
    {v4s16(x, y, z, DefaultPhase) :
        x \in LegacySamples, y \in LegacySamples, z \in LegacySamples}

InitCodec ==
    /\ SeedIdle
    /\ StoreIdle
    /\ op = "new"
    /\ \/ pos \in Coords(S16Samples) \cup {ScenarioA} /\ pos2 = pos
       \/ pos \in Coords(PairSamples) /\ pos2 \in Coords(PairSamples)
       \/ pos \in LegacyCoords /\ pos2 \in {pos, v4s16(0, 1, 0, DefaultPhase)}
    /\ p3 = NoPos
    /\ key = NoKey
    /\ key2 = NoKey
    /\ blockOut = NoPos
    /\ hash = NoKey
    /\ hash2 = NoKey
    /\ args = NoKey

\* the table hashes both coordinates (unordered_map<v4s16, ., v4s16::Hash>)
HashCall ==
    /\ op = "new"
    /\ op' = "hash"
    /\ hash' = Hash(pos)
    /\ hash2' = Hash(pos2)
    /\ UNCHANGED <<pos, pos2, p3, key, key2, blockOut>>
    /\ UNCHANGED <<args, seedVars, storeVars>>

\* the persistence layer encodes both coordinates under the 4-axis scheme
Encode4 ==
    /\ op = "new"
    /\ op' = "encode4"
    /\ key' = getBlockAsInteger_v4s16(pos)
    /\ key2' = getBlockAsInteger_v4s16(pos2)
    /\ UNCHANGED <<pos, pos2, p3, blockOut, hash, hash2>>
    /\ UNCHANGED <<args, seedVars, storeVars>>

\* ... and decodes the key of pos under the same scheme
Decode4 ==
    /\ op = "encode4"
    /\ op' = "decode4"
    /\ blockOut' = getIntegerAsBlock_v4s16(key)
    /\ UNCHANGED <<pos, pos2, p3, key, key2, hash, hash2>>
    /\ UNCHANGED <<args, seedVars, storeVars>>

\* the legacy scheme, on the 3-axis projection of the coordinates
EncodeLegacy ==
    /\ op = "new"
    /\ op' = "encode3"
    /\ p3' = toV3s16(pos)
    /\ key' = getBlockAsInteger_v3s16(toV3s16(pos))
    /\ key2' = getBlockAsInteger_v3s16(toV3s16(pos2))
    /\ UNCHANGED <<pos, pos2, blockOut, hash, hash2>>
    /\ UNCHANGED <<args, seedVars, storeVars>>

DecodeLegacy ==
    /\ op = "encode3"
    /\ op' = "decode3"
    /\ blockOut' = getIntegerAsBlock_v3s16(key)
    /\ UNCHANGED <<pos, pos2, p3, key, key2, hash, hash2>>
    /\ UNCHANGED <<args, seedVars, storeVars>>

\* a coordinate stored under both schemes: its 3-axis projection encoded
\* by the legacy getBlockAsInteger, the coordinate by the 4-axis one
EncodeBoth ==
    /\ op = "new"
    /\ op' = "encodeBoth"
    /\ p3' = toV3s16(pos)
    /\ key' = getBlockAsInteger_v3s16(toV3s16(pos))
    /\ key2' = getBlockAsInteger_v4s16(pos)
    /\ UNCHANGED <<pos, pos2, blockOut, hash, hash2>>
    /\ UNCHANGED <<args, seedVars, storeVars>>

\* a reader that takes the legacy key for a 4-axis key
DecodeLegacyKeyAs4D ==
    /\ op = "encodeBoth"
    /\ op' = "legacyAs4D"
    /\ blockOut' = getIntegerAsBlock_v4s16(key)
    /\ UNCHANGED <<pos, pos2, p3, key, key2, hash, hash2>>
    /\ UNCHANGED <<args, seedVars, storeVars>>

\* a reader that takes the 4-axis key for a legacy key
Decode4DKeyAsLegacy ==
    /\ op = "encodeBoth"
    /\ op' = "4DAsLegacy"
    /\ blockOut' = getIntegerAsBlock_v3s16(key2)
    /\ UNCHANGED <<pos, pos2, p3, key, key2, hash, hash2>>
    /\ UNCHANGED <<args, seedVars, storeVars>>

NextCodec ==
    \/ HashCall
    \/ Encode4
    \/ Decode4
    \/ EncodeLegacy
    \/ DecodeLegacy
    \/ EncodeBoth
    \/ DecodeLegacyKeyAs4D
    \/ Decode4DKeyAsLegacy

SpecCodec == InitCodec /\ [][NextCodec]_vars

-----------------------------------------------------------------------------
(* irr_v3d.h: construction of a v4s16 and its projection to v3s16 *)

\* an int argument bound to an s16 parameter: the implicit conversion keeps
\* the low 16 bits
s16_arg(n) == S16(U16(n))

\* integer arguments: the edges of the s16 range and values beyond them
CtorSamples == {-32769, -32768, -1, 0, 32767, 32768, 40000}

\* the arguments of pos1 and pos2 in test_4d_compilation.cpp
TestArgs == <<100, 50, 25, 3>>

\* values an uninitialised s16 member may hold
Indeterminate == S16Samples

InitCoord ==
    /\ SeedIdle
    /\ StoreIdle
    /\ op = "start"
    /\ pos = NoPos /\ pos2 = NoPos /\ p3 = NoPos
    /\ key = NoKey /\ key2 = NoKey /\ blockOut = NoPos
    /\ hash = NoKey /\ hash2 = NoKey
    /\ args = NoKey

\* v4s16 pos(x, y, z, p); and v4s16 pos2(v3s16(x, y, z), p);
Construct4(x, y, z, p) ==
    /\ op = "start"
    /\ op' = "v4s16(x, y, z, p)"
    /\ args' = <<x, y, z, p>>
    /\ pos' = v4s16(s16_arg(x), s16_arg(y), s16_arg(z), s16_arg(p))
    /\ pos2' = v4s16_from_v3s16(v3s16(s16_arg(x), s16_arg(y), s16_arg(z)),
                                s16_arg(p))
    /\ UNCHANGED <<p3, key, key2, blockOut, hash, hash2>>
    /\ UNCHANGED <<seedVars, storeVars>>

\* the same with the phase argument omitted: s16 p = 0
Construct3(x, y, z) ==
    /\ op = "start"
    /\ op' = "v4s16(x, y, z)"
    /\ args' = <<x, y, z>>
    /\ pos' = v4s16(s16_arg(x), s16_arg(y), s16_arg(z), DefaultPhase)
    /\ pos2' = v4s16_from_v3s16(v3s16(s16_arg(x), s16_arg(y), s16_arg(z)),
                                DefaultPhase)
    /\ UNCHANGED <<p3, key, key2, blockOut, hash, hash2>>
    /\ UNCHANGED <<seedVars, storeVars>>

\* v4s16() = default.  Only P has a default member initializer.  An object
\* that is default-initialised (v4s16 pos3; at block scope) has X, Y and Z
\* uninitialised: reading them gives an indeterminate value.  An object that
\* is value-initialised (v4s16() or v4s16{}) is zeroed first.
DefaultConstruct(init) ==
    /\ op = "start"
    /\ op' = init
    /\ args' = <<>>
    /\ IF init = "v4s16 pos;"
       THEN \E x \in Indeterminate, y \in Indeterminate, z \in Indeterminate :
                pos' = v4s16(x, y, z, DefaultPhase)
       ELSE pos' = v4s16(0, 0, 0, DefaultPhase)
    /\ UNCHANGED <<pos2, p3, key, key2, blockOut, hash, hash2>>
    /\ UNCHANGED <<seedVars, storeVars>>

CtorOps == {"v4s16(x, y, z, p)", "v4s16(x, y, z)"}
DefaultOps == {"v4s16 pos;", "v4s16()"}
ToV3Ops == {"pos.toV3s16()", "pos2.toV3s16()"}

\* v3s16 pos3d = pos.toV3s16(); on either of the two objects constructed
ToV3(which) ==
    /\ op \in CtorOps
    /\ op' = which
    /\ p3' = IF which = "pos.toV3s16()" THEN toV3s16(pos) ELSE toV3s16(pos2)
    /\ UNCHANGED <<pos, pos2, key, key2, blockOut, hash, hash2, args>>
    /\ UNCHANGED <<seedVars, storeVars>>

NextCoord ==
    \/ \E x \in CtorSamples, y \in CtorSamples, z \in CtorSamples,
         p \in CtorSamples : Construct4(x, y, z, p)
    \/ Construct4(TestArgs[1], TestArgs[2], TestArgs[3], TestArgs[4])
    \/ \E x \in CtorSamples, y \in CtorSamples, z \in CtorSamples :
         Construct3(x, y, z)
    \/ \E init \in DefaultOps : DefaultConstruct(init)
    \/ \E which \in ToV3Ops : ToV3(which)

SpecCoord == InitCoord /\ [][NextCoord]_vars

-----------------------------------------------------------------------------
(* Claims about the codecs and the hash, under SpecCodec *)

\* C1: decoding with the 4-axis getIntegerAsBlock the key that the 4-axis
\* getBlockAsInteger gives a coordinate with s16 components returns exactly
\* that coordinate, and two coordinates with the same key are the same
\* coordinate.
C1_RoundTrip4D ==
    /\ op = "decode4" => blockOut = pos
    /\ op \in {"encode4", "decode4"} /\ key = key2 => v4s16_eq(pos, pos2)

\* Scenario A, (10, 20, 30, 0), encoded and decoded
C1_Witness == op = "decode4" /\ pos = ScenarioA /\ blockOut = ScenarioA

\* C7: v4s16::Hash (64-bit size_t) gives two coordinates the same value if
\* and only if operator== holds of them.
C7_HashIffEqual ==
    op = "hash" => ((hash = hash2) <=> v4s16_eq(pos, pos2))

\* two coordinates that differ in the phase alone, hashed apart
C7_Witness ==
    /\ op = "hash"
    /\ pos.X = pos2.X /\ pos.Y = pos2.Y /\ pos.Z = pos2.Z /\ pos.P # pos2.P
    /\ hash # hash2

\* C8 as stated: the hash word holds the unsigned pattern of Phase in bits
\* 48-63, of Z in bits 32-47, of Y in bits 16-31 and of X in bits 0-15.
C8_PhaseInHighestLane ==
    op = "hash" => hash = <<U16(pos.X), U16(pos.Y), U16(pos.Z), U16(pos.P)>>

\* C8 as amended: the hash word holds the unsigned pattern of X in bits
\* 48-63, of Y in bits 32-47, of Z in bits 16-31 and of Phase in bits 0-15.
C8_XInHighestLane ==
    op = "hash" => hash = <<U16(pos.P), U16(pos.Z), U16(pos.Y), U16(pos.X)>>

\* a coordinate with four different components, negative ones among them
C8_Witness ==
    /\ op = "hash"
    /\ pos = v4s16(1, -32768, -1, 32767)
    /\ hash = <<32767, 65535, 32768, 1>>

\* C9: for a 3-axis coordinate with every component in -2047..2047 the
\* legacy getIntegerAsBlock of the legacy getBlockAsInteger key is the
\* coordinate itself, and (0, 0, 0) has the key 0.
C9_RoundTripLegacy ==
    /\ ( /\ op = "decode3"
         /\ \A a \in {p3.X, p3.Y, p3.Z} : a \in -2047..2047 )
       => blockOut = p3
    /\ op \in {"encode3", "decode3"} /\ p3 = v3s16(0, 0, 0)
       => key = <<0, 0, 0, 0>>

\* the corners of the legacy range, of mixed sign
C9_Witness ==
    /\ op = "decode3"
    /\ p3 = v3s16(-2047, 2047, -1)
    /\ blockOut = p3
    /\ key # <<0, 0, 0, 0>>

-----------------------------------------------------------------------------
(* Claims about the seed of a generation, under SpecSeed *)

\* C5 as stated: for every base seed and every s16 phase, negative ones
\* included, the sum before narrowing is (baseSeed + phase) mod 2^64: the
\* sum less the base seed is the phase as a (sign-extended) integer.
C5_SumOfSignedPhase ==
    phase_modified_seed # NoKey
        => Sub64(phase_modified_seed, seed) = SignExt64(genPos.P)

\* C5 as amended: for every base seed and every non-zero s16 phase the sum
\* before narrowing is (baseSeed + (phase mod 2^16)) mod 2^64, the base seed
\* entering at its full 64 bits: the sum less the base seed is the unsigned
\* 16-bit pattern of the phase.  Base seed 2^64 - 1 with phase 1 gives 0.
C5_SumOfUnsignedPhase ==
    /\ phase_modified_seed # NoKey
        => Sub64(phase_modified_seed, seed) = <<genPos.P % LimbBase, 0, 0, 0>>
    /\ ( /\ genPos # NoPos
         /\ genPos.P = 1
         /\ seed = <<65535, 65535, 65535, 65535>> )
        => phase_modified_seed = <<0, 0, 0, 0>>

\* Scenario C: base seed 2^64 - 1, phase 1, the sum wrapped to 0
C5_Witness ==
    /\ seed = <<65535, 65535, 65535, 65535>>
    /\ genPos = v4s16(10, 20, 30, 1)
    /\ phase_modified_seed = <<0, 0, 0, 0>>
    /\ genSeed = <<0, 0>>

\* C6: every generation of a Phase-0 block runs with the generator seed
\* equal to the world's base seed (as the mapgen holds it, in 32 bits).
C6_PhaseZeroRunsOnBaseSeed ==
    (genPos # NoPos /\ genPos.P = 0) => genSeed = Narrow32(seed)

-----------------------------------------------------------------------------
(* Claims about the block store, under Spec *)

\* C2: on every path that removes a block from the store (deleteBlock, the
\* eviction of timerUpdate, ~Map) the orphan flag is set before the memory
\* is released: no block is released with its orphan flag still false.
C2_OrphanedBeforeRelease ==
    \A b \in BlockIds : blockState[b] = "released" => orphaned[b]

\* one block released by deleteBlock and one by an eviction pass
C2_Witness ==
    \E a, b \in BlockIds :
        /\ releasedBy[a] = "deleteBlock" /\ blockState[a] = "released"
        /\ releasedBy[b] = "timerUpdate" /\ blockState[b] = "released"
        /\ orphaned[a] /\ orphaned[b]

\* C3: a thread that keeps a pointer obtained from get, and re-checks the
\* orphan flag before each use, never reads or writes the block after a
\* removal on another thread has released its memory.
C3_NoUseAfterRelease == ~uaf

\* C4: after a removal of c has completed, a get(c) with no insert in
\* between returns absent (never the deleted block), and a thread that kept
\* the pointer from before the removal reads true when it checks the orphan
\* flag after the removal.
C4_AbsentAndOrphanedAfterRemoval ==
    \A t \in Threads :
        /\ ~gotRemoved[t]
        /\ IF flagSeen[t].checked
           THEN flagSeen[t].afterRemoval => flagSeen[t].value
           ELSE TRUE

RemovalStepOn(t, c) ==
    \/ deleteBlock(t, c)
    \/ /\ mode[t] = "deleteBlock"
       /\ it[t] = c
       /\ (MakeOrphanStep(t) \/ DeleteStep(t) \/ EraseStep(t))

\* C11: for two phases p1 # p2 and any (x, y, z), no step of an insert or
\* of a removal on (x, y, z, p1) changes whether (x, y, z, p2) is present,
\* the block it maps to, or that block's orphan flag and liveness.
C11_PhaseIsolation ==
    [][\A t \in Threads, c \in StoreKeys, k \in StoreKeys :
          ( /\ toV3s16(k) = toV3s16(c)
            /\ k.P # c.P
            /\ (insertBlock(t, c) \/ RemovalStepOn(t, c)) )
          => /\ Lookup(k)' = Lookup(k)
             /\ Lookup(k) # NULL
                => /\ orphaned'[Lookup(k)] = orphaned[Lookup(k)]
                   /\ blockState'[Lookup(k)] = blockState[Lookup(k)]]_vars

\* both phases of (10, 20, 30) are resident, and a removal of the Phase-0
\* entry has orphaned and released its block while the Phase-1 block is live
C11_Witness ==
    \E t \in Threads :
        /\ pc[t] = "erase"
        /\ mode[t] = "deleteBlock"
        /\ it[t] = v4s16(10, 20, 30, 0)
        /\ blockState[m_blocks[it[t]]] = "released"
        /\ Lookup(v4s16(10, 20, 30, 1)) # NULL
        /\ blockState[Lookup(v4s16(10, 20, 30, 1))] = "live"
        /\ ~orphaned[Lookup(v4s16(10, 20, 30, 1))]

C13_AbsentKeyIsNoOp ==
    [][\A t \in Threads, c \in StoreKeys :
          /\ (deleteBlock(t, c) /\ find(m_blocks, c) = NoPos)
                => UNCHANGED <<m_blocks, m_blocks_mutex, mapAlive, blockState,
                               orphaned, releasedBy, pc, mode, it, todo, held,
                               grabbed, flagSeen, gotRemoved, uaf, stored,
                               skipped>>
          /\ (getBlockNoCreateNoEx(t, c) /\ find(m_blocks, c) = NoPos)
                => /\ held'[t] = NULL
                   /\ m_blocks' = m_blocks
                   /\ blockState' = blockState]_vars

\* 4-axis calls have returned on a store that never held a block: it is
\* still empty, with no block allocated, orphaned or released and the lock
\* free
C13_Witness ==
    /\ form = "v4s16"
    /\ DOMAIN m_blocks = {}
    /\ m_blocks_mutex = NoThread
    /\ \A b \in BlockIds : blockState[b] = "unallocated" /\ ~orphaned[b]
    /\ \A t \in Threads : held[t] = NULL /\ pc[t] = "idle"

C15_StoreInvariant ==
    m_blocks_mutex = NoThread
    => /\ \A j \in DOMAIN m_blocks, k \in DOMAIN m_blocks :
            v4s16_eq(j, k) => j = k
       /\ \A k \in DOMAIN m_blocks :
            /\ m_blocks[k] # NULL
            /\ blockState[m_blocks[k]] = "live"

\* after an eviction pass that removed one of two entries, the other entry
\* is left with its live block
C15_Witness ==
    /\ m_blocks_mutex = NoThread
    /\ \E k \in DOMAIN m_blocks : blockState[m_blocks[k]] = "live"
    /\ \E b \in BlockIds :
        /\ releasedBy[b] = "timerUpdate"
        /\ blockState[b] = "released"

-----------------------------------------------------------------------------
(* Claims about the construction of coordinates, under SpecCoord *)

InS16(n) == n \in -32768..32767

\* C16: a constructor call with an integer argument outside -32768..32767
\* is rejected: it produces no coordinate (and so none with the wrapped
\* image of the argument as a component).
C16_OutOfRangeRejected ==
    (op \in CtorOps /\ \E i \in DOMAIN args : ~InS16(args[i]))
        => pos = NoPos /\ pos2 = NoPos

\* C18: a default-constructed v4s16 is (0, 0, 0, 0).
C18_DefaultIsOrigin ==
    op \in DefaultOps => pos = v4s16(0, 0, 0, 0)

\* C19: for all s16 x, y, z, p the coordinate v4s16(x, y, z, p) equals
\* v4s16(v3s16(x, y, z), p) and has exactly these components; with the
\* phase argument omitted P is 0; and toV3s16() of either is (x, y, z).
C19_ConstructorsAgree ==
    ( /\ op \in CtorOps \cup ToV3Ops
      /\ \A i \in DOMAIN args : InS16(args[i]) )
    => /\ v4s16_eq(pos, pos2)
       /\ pos = v4s16(args[1], args[2], args[3],
                      IF Len(args) = 4 THEN args[4] ELSE 0)
       /\ op \in ToV3Ops => p3 = v3s16(args[1], args[2], args[3])

\* pos2(v3s16(100, 50, 25), 3) of the compilation test, projected to 3 axes
C19_Witness ==
    /\ op = "pos2.toV3s16()"
    /\ args = TestArgs
    /\ pos2 = v4s16(100, 50, 25, 3)
    /\ p3 = v3s16(100, 50, 25)

-----------------------------------------------------------------------------
(* Claims about the registry and about the seeds of two worlds *)

C20_DistinctSeedsStayDistinct ==
    ( /\ seed # seed2
      /\ phase_modified_seed # NoKey
      /\ genPos2 # NoPos
      /\ genPos2.P # 0
      /\ genPos2.P = genPos.P )
    => mapgen_seed # mapgen_seed2

-----------------------------------------------------------------------------
(* Claims about the layout of the keys and of the seed, under SpecCodec and
   SpecSeed *)

\* C21: the 64-bit pattern of the 4-axis key of a coordinate with s16
\* components holds the unsigned 16-bit pattern of X in bits 0-15, of Y in
\* bits 16-31, of Z in bits 32-47 and of the phase in bits 48-63, negative
\* components included: no lane carries or sign-extends into another.
C21_KeyLanes ==
    op \in {"encode4", "decode4"}
        => key = <<U16(pos.X), U16(pos.Y), U16(pos.Z), U16(pos.P)>>

\* a coordinate with three negative components, each in its own lane
C21_Witness ==
    /\ op = "encode4"
    /\ pos = v4s16(-1, -32768, 1, -2047)
    /\ key = <<65535, 32768, 1, 63489>>

\* C22: for every 64-bit base seed and every 16-bit phase, the seed that
\* emergeBlock hands to the generator, (s32)((u64)baseSeed + phase), is the
\* sum of the earlier derivation, (s32)baseSeed + phase, modulo 2^32:
\* adding in 64 bits and narrowing last changes no generator seed.
C22_NarrowLastEqualsNarrowFirst ==
    phase_modified_seed # NoKey
        => genSeed = mapgen_seed_s32(seed, phase_id(genPos))

\* base seed 0x7FFFFFFF, phase 1: the 32-bit sum leaves the s32 range and
\* both derivations give the pattern 0x80000000
C22_Witness ==
    /\ seed = <<65535, 32767, 0, 0>>
    /\ genPos # NoPos
    /\ genPos.P = 1
    /\ phase_modified_seed = <<0, 32768, 0, 0>>
    /\ genSeed = <<0, 32768>>

\* a key that is the legacy key of some coordinate with every component in
\* -2048..2047: 0 <= key + 0x800800800 < 2^36
InLegacyKeyRange(k) ==
    LET i == Add64(k, Offset800800800) IN i[4] = 0 /\ i[3] < 16

InLegacyRange(v) == \A a \in {v.X, v.Y, v.Z} : a \in -2048..2047

\* C23: the legacy getIntegerAsBlock of the legacy getBlockAsInteger key of
\* a v3s16 is the coordinate itself if and only if every component lies in
\* -2048..2047.  Outside that range keys coincide with keys of in-range
\* coordinates: (4096, 0, 0) and (0, 1, 0) have the same key, and whenever
\* the key of an out-of-range coordinate lies in the legacy key range the
\* decoder returns a different, in-range coordinate with that same key.
C23_LegacyRoundTripIffInRange ==
    /\ op = "decode3" => ((blockOut = p3) <=> InLegacyRange(p3))
    /\ ( /\ op \in {"encode3", "decode3"}
         /\ toV3s16(pos) = v3s16(4096, 0, 0)
         /\ toV3s16(pos2) = v3s16(0, 1, 0) )
       => key = key2
    /\ ( /\ op = "decode3"
         /\ ~InLegacyRange(p3)
         /\ InLegacyKeyRange(key) )
       => /\ InLegacyRange(blockOut)
          /\ blockOut # p3
          /\ getBlockAsInteger_v3s16(blockOut) = key

\* (4096, 0, 0) and (0, 1, 0): one key, decoded as (0, 1, 0)
C23_Witness ==
    /\ op = "decode3"
    /\ p3 = v3s16(4096, 0, 0)
    /\ toV3s16(pos2) = v3s16(0, 1, 0)
    /\ key = <<4096, 0, 0, 0>>
    /\ key2 = key
    /\ blockOut = v3s16(0, 1, 0)

\* the keys of both schemes agree exactly on (x, 0, 0, 0) with x >= 0
KeysAgreeIffOnPositiveXAxis ==
    op \in {"encodeBoth", "legacyAs4D", "4DAsLegacy"}
        => ((key = key2) <=> (pos.Y = 0 /\ pos.Z = 0 /\ pos.X >= 0))

\* the 4-axis decoder never returns the coordinate from a legacy key that
\* differs from the 4-axis key
LegacyKeyRead4DDiffers ==
    (op = "legacyAs4D" /\ key # key2) => blockOut # pos

\* C24 as stated: for a Phase-0 coordinate (x, y, z, 0) within the legacy
\* range the legacy key of (x, y, z) equals the 4-axis key of (x, y, z, 0)
\* if and only if y = 0, z = 0 and x >= 0; for every other such coordinate
\* the keys differ and decoding either key under the other scheme returns
\* a different coordinate.
C24_OtherSchemeNeverReturnsCoordinate ==
    (pos.P = DefaultPhase /\ InLegacyRange(pos))
    => /\ KeysAgreeIffOnPositiveXAxis
       /\ LegacyKeyRead4DDiffers
       /\ (op = "4DAsLegacy" /\ key # key2) => blockOut # p3

\* C24 as amended: the keys are equal if and only if y = 0, z = 0 and
\* x >= 0; where they differ, the 4-axis decode of the legacy key is a
\* different coordinate, and the legacy decode of the 4-axis key is a
\* different coordinate except for (x, 272, 257) with x < 0, which the
\* legacy decoder returns from the 4-axis key although the keys differ.
C24_OtherSchemeReturnsCoordinateOnOneLine ==
    (pos.P = DefaultPhase /\ InLegacyRange(pos))
    => /\ KeysAgreeIffOnPositiveXAxis
       /\ LegacyKeyRead4DDiffers
       /\ (op = "4DAsLegacy" /\ key # key2)
          => ((blockOut = p3) <=> (p3.X < 0 /\ p3.Y = 272 /\ p3.Z = 257))

\* (-1, 272, 257, 0): the keys are 0x10110FFFF and 0x01010110FFFF, and the
\* legacy decoder returns (-1, 272, 257) from the 4-axis key
C24_Witness ==
    /\ op = "4DAsLegacy"
    /\ pos = v4s16(-1, 272, 257, 0)
    /\ key = <<65535, 272, 1, 0>>
    /\ key2 = <<65535, 272, 257, 0>>
    /\ blockOut = p3

=============================================================================
